---- MODULE Spec2Model ----
(***************************************************************************)
(* Model of tfx/dsl/control_flow/for_each_internal.py: ForEachContext      *)
(* (identity equality, validate) and Loopable (construction, get_loop_var, *)
(* item access).                                                           *)
(*                                                                         *)
(* Objects live in heaps indexed by their identity: contexts[i] is the     *)
(* context object with identity i, loopables[i] the Loopable with          *)
(* identity i.  A Python value is a record [type, v, items].               *)
(***************************************************************************)
EXTENDS Integers, Sequences, FiniteSets

VARIABLES
  contexts,     \* heap of DslContext objects: [kind, parent, wrapped_channel]
  stack,        \* the ambient context stack, innermost context last
  nodes,        \* the node registry: [name, context], in declaration order
  members,      \* the entries of one Python set of ForEachContext objects
  added,        \* identities on which set.add was called
  loopables,    \* heap of Loopable objects: [_loop_var_factory]
  called,       \* called[l]: number of get_loop_var calls on loopable l
  invoked,      \* invoked[l]: number of calls of l's stored factory
  seen,         \* seen[l]: the arguments of the latest call of l's factory
  last          \* the last call made and its outcome

vars == <<contexts, stack, nodes, members, added,
          loopables, called, invoked, seen, last>>

ctx_vars == <<contexts, stack, nodes>>
set_vars == <<members, added>>
loop_vars == <<loopables, called, invoked, seen>>

----------------------------------------------------------------------------
(* Bounds *)

MaxContexts == 3
MaxLoopables == 2
MaxCalls == 2

----------------------------------------------------------------------------
(* Python values *)

NoneValue == [type |-> "NoneType", v |-> "None", items |-> <<>>]
StrValue(s) == [type |-> "str", v |-> s, items |-> <<>>]
IntValue(s) == [type |-> "int", v |-> s, items |-> <<>>]
ChannelValue(n) == [type |-> "Channel", v |-> n, items |-> <<>>]
DictValue(kvs) == [type |-> "dict", v |-> "", items |-> kvs]
FunctionValue(n) == [type |-> "function", v |-> n, items |-> <<>>]

\* what a call that raised hands back in place of a value
NoValue == [type |-> "<raised>", v |-> "", items |-> <<>>]

Channels == {ChannelValue("some_channel")}
\* node N consumes the loop variable of its block, node M ignores it
Nodes == {"N", "M"}
uses_loop_var(n) == n = "N"

\* outcomes of a call: a normal return, or the exception raised.  msg is
\* the message as the source writes it; where the source writes an
\* f-string, msg is that f-string and value is the object it renders
Returned == [exc |-> "", msg |-> "", value |-> NoValue]
Raised(e, m) == [exc |-> e, msg |-> m, value |-> NoValue]
RaisedAbout(e, m, x) == [exc |-> e, msg |-> m, value |-> x]

NestedLoopUnsupported ==
  Raised("NotImplementedError", "Nested ForEach block is not supported yet.")
MultipleNodesUnsupported ==
  Raised("NotImplementedError",
         "Cannot define more than one component within ForEach yet.")
DirectUsageForbidden ==
  Raised("RuntimeError",
         "Cannot use loopable value directly. Please use ForEach to wrap it.")
NonCallableFactory(f) ==
  RaisedAbout("ValueError", "{loop_var_factory} is not callable.", f)
NonLoopableResult(r) ==
  RaisedAbout("ValueError", "ForEach got non-loopable instance {result}", r)

\* a call: the method, the receiver, the arguments (arg: a value, ctx: a
\* context or 0 for None, nodes: a node list), and the call's outcome and
\* result
NoCall == [op |-> "", self |-> 0, arg |-> NoValue, ctx |-> 0, nodes |-> <<>>,
           outcome |-> Returned, result |-> NoValue]

---------------------------------------------------------------------------------------------------------------------------------------------------
(* DslContext collaborator: the context stack, the ancestor chain and the  *)
(* node registry                                                           *)

ContextIds == DOMAIN contexts
ForEachIds == {c \in ContextIds : contexts[c].kind = "ForEachContext"}

isinstance_ForEachContext(c) == contexts[c].kind = "ForEachContext"

\* the enclosing contexts of c, immediate parent first
RECURSIVE ancestors(_)
ancestors(c) ==
  IF contexts[c].parent = 0 THEN <<>>
  ELSE <<contexts[c].parent>> \o ancestors(contexts[c].parent)

Range(s) == {s[i] : i \in 1..Len(s)}

InBlock(c, n) == n.context = c \/ c \in Range(ancestors(n.context))

\* the nodes declared textually inside block c, nested blocks included
get_nodes(c) ==
  LET F[i \in 0..Len(nodes)] ==
        IF i = 0 THEN <<>>
        ELSE IF InBlock(c, nodes[i]) THEN Append(F[i - 1], nodes[i].name)
        ELSE F[i - 1]
  IN F[Len(nodes)]

Top == IF stack = <<>> THEN 0 ELSE stack[Len(stack)]

\* `with ForEach(...)` opens: a ForEachContext is created under the
\* innermost open context
EnterForEach(wc) ==
  /\ Len(contexts) < MaxContexts
  /\ contexts' = Append(contexts,
       [kind |-> "ForEachContext", parent |-> Top, wrapped_channel |-> wc])
  /\ stack' = Append(stack, Len(contexts) + 1)
  /\ UNCHANGED <<nodes, set_vars, loop_vars, last>>

\* a `with` block of another kind opens (a conditional)
EnterCond ==
  /\ Len(contexts) < MaxContexts
  /\ contexts' = Append(contexts,
       [kind |-> "CondContext", parent |-> Top, wrapped_channel |-> NoneValue])
  /\ stack' = Append(stack, Len(contexts) + 1)
  /\ UNCHANGED <<nodes, set_vars, loop_vars, last>>

\* the innermost `with` block closes
Exit ==
  /\ stack # <<>>
  /\ stack' = SubSeq(stack, 1, Len(stack) - 1)
  /\ UNCHANGED <<contexts, nodes, set_vars, loop_vars, last>>

\* a node is declared textually inside the innermost open block
DeclareNode(n) ==
  /\ stack # <<>>
  /\ \A i \in 1..Len(nodes) : nodes[i].name # n
  /\ nodes' = Append(nodes, [name |-> n, context |-> Top])
  /\ UNCHANGED <<contexts, stack, set_vars, loop_vars, last>>

----------------------------------------------------------------------------
(* ForEachContext *)

\* ForEachContext.__hash__: hash(id(self)); the hash of a small
\* non-negative int is the int
__hash__(self) == self

\* ForEachContext.__eq__ written by value, as attrs would generate it
eq_by_value(self, other) ==
  contexts[other].wrapped_channel = contexts[self].wrapped_channel

\* ForEachContext.__eq__: other is self
__eq__(self, other) == other = self

\* validate looking at the immediate parent only
validate_parent_only(self, containing_nodes) ==
  IF /\ ancestors(self) # <<>>
     /\ isinstance_ForEachContext(ancestors(self)[1])
  THEN NestedLoopUnsupported
  ELSE IF Len(containing_nodes) > 1 THEN MultipleNodesUnsupported
  ELSE Returned

\* validate with the two checks in the other order
validate_multiplicity_first(self, containing_nodes) ==
  IF Len(containing_nodes) > 1 THEN MultipleNodesUnsupported
  ELSE IF \E i \in 1..Len(ancestors(self)) :
            isinstance_ForEachContext(ancestors(self)[i])
  THEN NestedLoopUnsupported
  ELSE Returned

\* validate also insisting that every node uses the loop variable
validate_requires_loop_var(self, containing_nodes) ==
  IF \E i \in 1..Len(ancestors(self)) :
       isinstance_ForEachContext(ancestors(self)[i])
  THEN NestedLoopUnsupported
  ELSE IF Len(containing_nodes) > 1 THEN MultipleNodesUnsupported
  ELSE IF \E i \in 1..Len(containing_nodes) :
            ~uses_loop_var(containing_nodes[i])
  THEN Raised("ValueError", "Loop variable is not used.")
  ELSE Returned

\* validate with the multiplicity check dropped
validate_no_multiplicity_check(self, containing_nodes) ==
  IF \E i \in 1..Len(ancestors(self)) :
       isinstance_ForEachContext(ancestors(self)[i])
  THEN NestedLoopUnsupported
  ELSE Returned

\* ForEachContext.validate: the outcome of the call
validate(self, containing_nodes) ==
  IF \E i \in 1..Len(ancestors(self)) :
       isinstance_ForEachContext(ancestors(self)[i])
  THEN NestedLoopUnsupported
  ELSE IF Len(containing_nodes) > 1 THEN MultipleNodesUnsupported
  ELSE Returned

ValidateCall(self) ==
  [NoCall EXCEPT !.op = "validate", !.self = self,
                 !.nodes = get_nodes(self),
                 !.outcome = validate(self, get_nodes(self))]

\* a validate that consumes the nodes it was handed and detaches the
\* context from its parent
Validate_consuming(self) ==
  /\ self \in ForEachIds
  /\ last' = ValidateCall(self)
  /\ nodes' = SelectSeq(nodes, LAMBDA n : ~InBlock(self, n))
  /\ contexts' = [contexts EXCEPT ![self].parent = 0]
  /\ UNCHANGED <<stack, set_vars, loop_vars>>

\* self.validate(containing_nodes), called with the nodes of self's block
Validate(self) ==
  /\ self \in ForEachIds
  /\ last' = ValidateCall(self)
  /\ UNCHANGED <<ctx_vars, set_vars, loop_vars>>

----------------------------------------------------------------------------
(* A Python set of ForEachContext objects, driven by __hash__ and __eq__ *)

\* x in s: same hash, and the same object or an equal one
set_contains(s, x) ==
  \E i \in 1..Len(s) :
    /\ __hash__(s[i]) = __hash__(x)
    /\ (s[i] = x \/ __eq__(s[i], x))

set_add(s, x) == IF set_contains(s, x) THEN s ELSE Append(s, x)

SetAdd(c) ==
  /\ c \in ForEachIds
  /\ c \notin added
  /\ members' = set_add(members, c)
  /\ added' = added \cup {c}
  /\ UNCHANGED <<ctx_vars, loop_vars, last>>

----------------------------------------------------------------------------
(* Specification of the context side *)

Init ==
  /\ contexts = <<>>
  /\ stack = <<>>
  /\ nodes = <<>>
  /\ members = <<>>
  /\ added = {}
  /\ loopables = <<>>
  /\ called = <<>>
  /\ invoked = <<>>
  /\ last = NoCall
  /\ seen = <<>>

Next ==
  \/ \E wc \in Channels \cup {NoneValue} : EnterForEach(wc)
  \/ EnterCond
  \/ Exit
  \/ \E n \in Nodes : DeclareNode(n)
  \/ \E self \in ContextIds : Validate(self)

Spec == Init /\ [][Next]_vars

NextSet ==
  \/ \E wc \in Channels \cup {NoneValue} : EnterForEach(wc)
  \/ EnterCond
  \/ Exit
  \/ \E c \in ContextIds : SetAdd(c)

SpecSet == Init /\ [][NextSet]_vars

----------------------------------------------------------------------------
(* Properties of ForEachContext.validate, under Spec *)

HasForEachAncestor(c) ==
  \E i \in 1..Len(ancestors(c)) : isinstance_ForEachContext(ancestors(c)[i])

ValidateCalled == last.op = "validate"

\* C1: validate raises the nested-loop error whenever some ancestor of the
\* context, at any position of the chain, is a ForEachContext and
\* containing_nodes is not empty.
C1_NestedRaises ==
  (ValidateCalled /\ last.nodes # <<>> /\ HasForEachAncestor(last.self))
    => last.outcome = NestedLoopUnsupported

\* C1 happens: a ForEachContext inside a conditional inside a ForEachContext
\* was validated with a node in its block.
C1_Witness ==
  /\ ValidateCalled
  /\ last.nodes # <<>>
  /\ Len(ancestors(last.self)) >= 2
  /\ ~isinstance_ForEachContext(ancestors(last.self)[1])
  /\ isinstance_ForEachContext(ancestors(last.self)[2])
  /\ last.outcome = NestedLoopUnsupported

\* C2: validate raises the multiple-nodes error whenever containing_nodes
\* has more than one element and no ancestor is a ForEachContext.
C2_MultipleRaises ==
  (ValidateCalled /\ Len(last.nodes) > 1 /\ ~HasForEachAncestor(last.self))
    => last.outcome = MultipleNodesUnsupported

\* C2 happens: a top-level ForEachContext was validated with two nodes.
C2_Witness ==
  /\ ValidateCalled
  /\ Len(last.nodes) = 2
  /\ ~HasForEachAncestor(last.self)
  /\ last.outcome.exc = "NotImplementedError"
  /\ last.outcome # NestedLoopUnsupported

\* C3: validate returns normally whenever containing_nodes has 0 or 1
\* elements and no ancestor is a ForEachContext, whether or not the single
\* node uses the loop variable.
C3_ReturnsNormally ==
  (ValidateCalled /\ Len(last.nodes) <= 1 /\ ~HasForEachAncestor(last.self))
    => last.outcome = Returned

\* C3 happens: a block whose only node ignores the loop variable passed.
C3_Witness ==
  /\ ValidateCalled
  /\ Len(last.nodes) = 1
  /\ ~uses_loop_var(last.nodes[1])
  /\ ~HasForEachAncestor(last.self)
  /\ last.outcome = Returned

\* C9, the outcome part: validate called again on the same context with
\* the same containing_nodes has the outcome of the recorded call, whatever
\* was declared or validated in between.
C9_SameOutcome ==
  ValidateCalled => validate(last.self, last.nodes) = last.outcome

\* C9, the frame part: no step changes an existing context (its
\* wrapped_channel, its parent and so its ancestors) or removes or reorders
\* registered nodes, and a validate call leaves contexts, stack and nodes
\* exactly as they were.
C9_Frame ==
  /\ \A c \in DOMAIN contexts :
       c \in DOMAIN contexts' /\ contexts'[c] = contexts[c]
  /\ Len(nodes') >= Len(nodes)
  /\ SubSeq(nodes', 1, Len(nodes)) = nodes
  /\ (last' # last => UNCHANGED ctx_vars)

\* C9: validate is a pure check: it leaves wrapped_channel, the ancestor
\* chain, the context stack and containing_nodes unchanged, and repeating
\* it with the same ancestors and nodes gives the same outcome.
C9_ValidatePure == [][C9_Frame]_vars /\ []C9_SameOutcome

\* C9 happens: a context wrapping a channel was validated while its block
\* was open, its nodes and its place on the stack are still there.
C9_Witness ==
  /\ ValidateCalled
  /\ last.nodes # <<>>
  /\ get_nodes(last.self) = last.nodes
  /\ contexts[last.self].wrapped_channel \in Channels
  /\ last.self \in Range(stack)
  /\ ancestors(last.self) # <<>>

\* C10: the nesting check comes first: with a ForEachContext ancestor the
\* outcome is the nested-loop error for every containing_nodes (empty, one,
\* several), and the multiple-nodes error only occurs without one.
C10_NestingFirst ==
  ValidateCalled =>
    /\ HasForEachAncestor(last.self) => last.outcome = NestedLoopUnsupported
    /\ last.outcome = MultipleNodesUnsupported
         => ~HasForEachAncestor(last.self)

\* C10 happens: a nested ForEachContext holding two nodes was validated.
C10_Witness ==
  /\ ValidateCalled
  /\ HasForEachAncestor(last.self)
  /\ Len(last.nodes) > 1
  /\ last.outcome = NestedLoopUnsupported

----------------------------------------------------------------------------
(* Identity of ForEachContext, under SpecSet *)

\* C4: equality and hashing are by identity: a == b exactly when a and b
\* are the same object, equal instances hash alike, and every instance
\* added to a set is a member of its own, so the set holds as many
\* entries as distinct instances were added.
C4_IdentityEquality ==
  /\ \A a \in ForEachIds, b \in ForEachIds :
       /\ __eq__(a, b) <=> (a = b)
       /\ __eq__(a, b) => __hash__(a) = __hash__(b)
  /\ \A a \in added : set_contains(members, a)
  /\ Range(members) = added
  /\ Len(members) = Cardinality(added)

\* C4 happens: two distinct instances wrapping the same channel are both
\* in the set.
C4_Witness ==
  \E a \in added, b \in added :
    /\ a # b
    /\ contexts[a].wrapped_channel \in Channels
    /\ contexts[a].wrapped_channel = contexts[b].wrapped_channel
    /\ set_contains(members, a)
    /\ set_contains(members, b)
    /\ Len(members) = 2

----------------------------------------------------------------------------
(* Loopable *)

LoopableIds == DOMAIN loopables

\* the factories handed to Loopable(...)
Factories ==
  {FunctionValue("lambda ctx: some_channel"),
   FunctionValue("lambda ctx: {'a': some_channel}"),
   FunctionValue("lambda ctx: 'not a channel'"),
   FunctionValue("lambda ctx: ctx.wrapped_channel"),
   FunctionValue("alternating")}
NonCallables == {NoneValue, IntValue("42")}
Keys == {IntValue("0"), StrValue("a"), NoneValue}

\* what get_loop_var may be handed as its context: any context, or None (0);
\* the code checks nothing about it
ContextArgs == ContextIds \cup {0}

\* the builtin callable()
callable(x) == x.type = "function"

\* f(context), on f's n-th invocation: how the call ends and the value it
\* returns.  ctx.wrapped_channel raises on None; "alternating" is impure: a
\* channel on odd invocations, a dict with an int key on even ones
call_factory(f, context, n) ==
  CASE f.v = "lambda ctx: some_channel" ->
         [outcome |-> Returned, value |-> ChannelValue("some_channel")]
    [] f.v = "lambda ctx: {'a': some_channel}" ->
         [outcome |-> Returned,
          value |-> DictValue(<< <<StrValue("a"),
                                   ChannelValue("some_channel")>> >>)]
    [] f.v = "lambda ctx: 'not a channel'" ->
         [outcome |-> Returned, value |-> StrValue("not a channel")]
    [] f.v = "lambda ctx: ctx.wrapped_channel" ->
         IF context = 0
         THEN [outcome |->
                 Raised("AttributeError",
                   "'NoneType' object has no attribute 'wrapped_channel'"),
               value |-> NoValue]
         ELSE [outcome |-> Returned,
               value |-> contexts[context].wrapped_channel]
    [] OTHER ->
         IF n % 2 = 1
         THEN [outcome |-> Returned, value |-> ChannelValue("some_channel")]
         ELSE [outcome |-> Returned,
               value |-> DictValue(<< <<IntValue("1"),
                                        ChannelValue("some_channel")>> >>)]

isinstance_BaseChannel(x) == x.type \in {"BaseChannel", "Channel"}

\* typing_utils.is_compatible(value, LoopVar)
is_compatible_LoopVar(value) ==
  \/ isinstance_BaseChannel(value)
  \/ /\ value.type = "dict"
     /\ \A i \in 1..Len(value.items) :
          /\ value.items[i][1].type = "str"
          /\ isinstance_BaseChannel(value.items[i][2])

\* Loopable.__init__ storing whatever it is given
init_unchecked(loop_var_factory) ==
  [outcome |-> Returned,
   instance |-> <<[_loop_var_factory |-> loop_var_factory]>>]

\* Loopable.__init__: the outcome, and the instance produced (none on error)
__init__(loop_var_factory) ==
  IF ~callable(loop_var_factory)
  THEN [outcome |-> NonCallableFactory(loop_var_factory), instance |-> <<>>]
  ELSE [outcome |-> Returned,
        instance |-> <<[_loop_var_factory |-> loop_var_factory]>>]

Construct(f) ==
  LET r == __init__(f) IN
  /\ Len(loopables) < MaxLoopables
  /\ loopables' = loopables \o r.instance
  /\ called' = called \o [i \in 1..Len(r.instance) |-> 0]
  /\ invoked' = invoked \o [i \in 1..Len(r.instance) |-> 0]
  /\ seen' = seen \o [i \in 1..Len(r.instance) |-> <<>>]
  /\ last' = [NoCall EXCEPT !.op = "__init__", !.arg = f,
                !.self = IF r.instance = <<>> THEN 0 ELSE Len(loopables) + 1,
                !.outcome = r.outcome]
  /\ UNCHANGED <<ctx_vars, set_vars>>

\* get_loop_var returning whatever the factory returned
get_loop_var_unchecked(self, context) ==
  LET r == call_factory(loopables[self]._loop_var_factory, context,
                        invoked[self] + 1)
  IN [args |-> <<context>>, outcome |-> r.outcome, result |-> r.value]

\* get_loop_var keeping the first result and handing it out again
get_loop_var_cached(self, context) ==
  LET r == call_factory(loopables[self]._loop_var_factory, context, 1)
      out == IF r.outcome # Returned THEN r.outcome
             ELSE IF ~is_compatible_LoopVar(r.value)
             THEN NonLoopableResult(r.value)
             ELSE Returned
      res == IF out = Returned THEN r.value ELSE NoValue
  IN [args |-> IF invoked[self] > 0 THEN <<>> ELSE <<context>>,
      outcome |-> out, result |-> res]

\* Loopable.get_loop_var: the arguments of the factory calls it makes, its
\* outcome and its result.  An exception of the factory leaves through
\* line 73; lines 74-76 only run when the factory returned
get_loop_var(self, context) ==
  LET r == call_factory(loopables[self]._loop_var_factory, context,
                        invoked[self] + 1)
  IN IF r.outcome # Returned
     THEN [args |-> <<context>>, outcome |-> r.outcome, result |-> NoValue]
     ELSE IF ~is_compatible_LoopVar(r.value)
     THEN [args |-> <<context>>, outcome |-> NonLoopableResult(r.value),
           result |-> NoValue]
     ELSE [args |-> <<context>>, outcome |-> Returned, result |-> r.value]

\* the factory of l keeps count of its calls and the arguments of the
\* latest one
FactoryCalled(l, args) ==
  /\ invoked' = [invoked EXCEPT ![l] = @ + Len(args)]
  /\ seen' = IF args = <<>> THEN seen
             ELSE [seen EXCEPT ![l] = <<args[Len(args)]>>]

\* the number of get_loop_var calls made so far, on all Loopables
TotalCalls ==
  LET Sum[i \in 0..Len(called)] ==
        IF i = 0 THEN 0 ELSE Sum[i - 1] + called[i]
  IN Sum[Len(called)]

GetLoopVar(l, context) ==
  LET r == get_loop_var(l, context) IN
  /\ l \in LoopableIds
  /\ context \in ContextArgs
  /\ TotalCalls < MaxCalls
  /\ called' = [called EXCEPT ![l] = @ + 1]
  /\ FactoryCalled(l, r.args)
  /\ last' = [NoCall EXCEPT !.op = "get_loop_var", !.self = l,
                !.ctx = context, !.outcome = r.outcome,
                !.result = r.result]
  /\ UNCHANGED <<loopables, ctx_vars, set_vars>>

\* __getitem__ indexing into what the factory produces
getitem_delegating(self, unused_args) ==
  LET r == call_factory(loopables[self]._loop_var_factory, 0,
                        invoked[self] + 1)
  IN [args |-> <<0>>, outcome |-> r.outcome, result |-> r.value]

\* Loopable.__getitem__
__getitem__(self, unused_args) ==
  [args |-> <<>>, outcome |-> DirectUsageForbidden, result |-> NoValue]

GetItem(l, key) ==
  LET r == __getitem__(l, key) IN
  /\ l \in LoopableIds
  /\ FactoryCalled(l, r.args)
  /\ last' = [NoCall EXCEPT !.op = "__getitem__", !.self = l, !.arg = key,
                !.outcome = r.outcome, !.result = r.result]
  /\ UNCHANGED <<loopables, called, ctx_vars, set_vars>>

----------------------------------------------------------------------------
(* Specification of the Loopable side: two ForEach blocks were declared,   *)
(* one wrapping a channel and one wrapping nothing                         *)

InitLoopable ==
  /\ contexts =
       <<[kind |-> "ForEachContext", parent |-> 0,
          wrapped_channel |-> ChannelValue("some_channel")],
         [kind |-> "ForEachContext", parent |-> 0,
          wrapped_channel |-> NoneValue]>>
  /\ stack = <<>>
  /\ nodes = <<>>
  /\ members = <<>>
  /\ added = {}
  /\ loopables = <<>>
  /\ called = <<>>
  /\ invoked = <<>>
  /\ seen = <<>>
  /\ last = NoCall

NextLoopable ==
  \/ \E f \in Factories \cup NonCallables : Construct(f)
  \/ \E l \in LoopableIds, c \in ContextArgs : GetLoopVar(l, c)
  \/ \E l \in LoopableIds, key \in Keys : GetItem(l, key)

SpecLoopable == InitLoopable /\ [][NextLoopable]_vars

----------------------------------------------------------------------------
(* Properties of Loopable, under SpecLoopable *)

StoredFactory(l) == loopables[l]._loop_var_factory

\* C5: constructing a Loopable with a non-callable raises the non-callable
\* ValueError and produces no instance; with a callable it succeeds and
\* stores that factory without invoking it.
C5_Construction ==
  /\ \A l \in LoopableIds : callable(StoredFactory(l))
  /\ last.op = "__init__" =>
       IF callable(last.arg)
       THEN /\ last.outcome = Returned
            /\ last.self = Len(loopables)
            /\ StoredFactory(last.self) = last.arg
            /\ invoked[last.self] = 0
            /\ seen[last.self] = <<>>
       ELSE /\ last.outcome.exc = "ValueError"
            /\ last.outcome = NonCallableFactory(last.arg)
            /\ last.self = 0

\* C5 happens: Loopable(42) was attempted after a Loopable was built.
C5_Witness ==
  /\ last.op = "__init__"
  /\ last.arg = IntValue("42")
  /\ last.outcome.exc = "ValueError"
  /\ Len(loopables) = 1

\* C6: get_loop_var invokes the stored factory with exactly the given
\* context, and when the factory returns, the LoopVar shape check on its
\* result decides: a channel or a str-keyed dict of channels is returned
\* as the factory returned it, anything else raises the non-loopable
\* ValueError and returns nothing.
C6_GetLoopVar ==
  last.op = "get_loop_var" =>
    LET r == call_factory(StoredFactory(last.self), last.ctx,
                          invoked[last.self])
    IN /\ seen[last.self] = <<last.ctx>>
       /\ r.outcome = Returned =>
            IF is_compatible_LoopVar(r.value)
            THEN last.outcome = Returned /\ last.result = r.value
            ELSE /\ last.outcome.exc = "ValueError"
                 /\ last.outcome = NonLoopableResult(r.value)
                 /\ last.result = NoValue

\* C6 happens: the factory returning "not a channel" was asked for the
\* loop variable and the call raised.
C6_Witness ==
  /\ last.op = "get_loop_var"
  /\ StoredFactory(last.self).v = "lambda ctx: 'not a channel'"
  /\ last.outcome = NonLoopableResult(StrValue("not a channel"))
  /\ last.result = NoValue

\* C7, the outcome: the last item access raised the direct-usage
\* RuntimeError and returned nothing.
C7_Raises ==
  last.op = "__getitem__" =>
    /\ last.outcome = DirectUsageForbidden
    /\ last.outcome.exc = "RuntimeError"
    /\ last.result = NoValue

\* C7, the factory: an item access leaves the factory uncalled and the
\* Loopable as it was.
C7_FactoryUntouched ==
  (last'.op = "__getitem__" /\ last' # last) =>
    UNCHANGED <<loopables, called, invoked, seen>>

\* C7: item access on a Loopable always raises the direct-usage
\* RuntimeError, whatever the key, the factory and the earlier calls; it
\* never invokes the factory and returns nothing.
C7_GetItemRaises == []C7_Raises /\ [][C7_FactoryUntouched]_vars

\* C7 happens: a Loopable whose factory returns a channel was indexed with
\* 0 after two get_loop_var calls.
C7_Witness ==
  /\ last.op = "__getitem__"
  /\ last.arg = IntValue("0")
  /\ called[last.self] >= 2
  /\ StoredFactory(last.self).v = "lambda ctx: some_channel"
  /\ last.outcome.exc = "RuntimeError"

\* what get_loop_var makes of the way a factory call ended
OutcomeOf(r) ==
  IF r.outcome # Returned THEN [outcome |-> r.outcome, result |-> NoValue]
  ELSE IF is_compatible_LoopVar(r.value)
  THEN [outcome |-> Returned, result |-> r.value]
  ELSE [outcome |-> NonLoopableResult(r.value), result |-> NoValue]

\* C8, the counting part: the factory was invoked once per get_loop_var
\* call, calls that raised included.
C8_OncePerCall == \A l \in LoopableIds : invoked[l] = called[l]

\* C8, the independence part: the outcome of a call is decided by how the
\* factory call made for it ended, and by nothing earlier.
C8_Independent ==
  last.op = "get_loop_var" =>
    LET r == call_factory(StoredFactory(last.self), last.ctx,
                          invoked[last.self])
    IN /\ last.outcome = OutcomeOf(r).outcome
       /\ last.result = OutcomeOf(r).result

\* C8, the stored factory: no step replaces the factory of a Loopable.
C8_FactoryKept ==
  \A l \in DOMAIN loopables :
    l \in DOMAIN loopables' /\ loopables'[l] = loopables[l]

\* C8: get_loop_var does no caching and Loopable is stateless after
\* construction: one factory invocation per call, the stored factory is
\* never replaced, and each outcome depends only on that call's result.
C8_NoCaching ==
  []C8_OncePerCall /\ []C8_Independent /\ [][C8_FactoryKept]_vars

\* C8 happens: the second call on a Loopable with an impure factory raised
\* the non-loopable error after the first had returned a channel.
C8_Witness ==
  /\ last.op = "get_loop_var"
  /\ StoredFactory(last.self).v = "alternating"
  /\ called[last.self] = 2
  /\ invoked[last.self] = 2
  /\ last.outcome.exc = "ValueError"

====
